---- MODULE Spec2Model ----
(***************************************************************************)
(* Model of src/app2.py: the COT dashboard script.  The script runs top to  *)
(* bottom on every interaction: cached load of the workbook, required-      *)
(* column check, sidebar selection and filter, net positions, KPI tiles and *)
(* sentiment cards, monthly resampling and the safe percent change.         *)
(*                                                                          *)
(* Numbers are pandas/numpy floats.  A value is a record [k, n, d]:         *)
(*   k = "num"  : the exact rational n/d (d > 0, reduced)                   *)
(*   k = "nan"  : NaN                                                       *)
(*   k = "inf"  : +Infinity (n = 1) or -Infinity (n = -1)                   *)
(*   k = "text" : a non-numeric object cell (a Python str)                  *)
(* Rounding and overflow of binary floats are not modelled: positions are   *)
(* contract counts, far from either.                                        *)
(***************************************************************************)
EXTENDS Integers, Sequences, FiniteSets, TLC

VARIABLES file, pc, df, missing, sel, df_plot, nets, kpi, df_m, mom, error

vars == <<file, pc, df, missing, sel, df_plot, nets, kpi, df_m, mom, error>>

(***************************************************************************)
(* Bounds of the model.                                                     *)
(***************************************************************************)
MaxRows == 5        \* rows of a workbook of the history family
MaxFilterRows == 3  \* rows of a workbook of the filter family
MaxYear == 2        \* years 1..MaxYear
MaxMonth == 2       \* calendar months 1..MaxMonth of a year
MaxDay == 2         \* days 1..MaxDay of a month
MaxHdrLen == 3      \* characters of a raw header of the header family
MaxSeries == 3      \* months of a monthly series of the percent-change family

Years == 1..MaxYear
Months == 1..MaxMonth
Days == 1..MaxDay

(***************************************************************************)
(* Floats.                                                                  *)
(***************************************************************************)
Abs(i) == IF i < 0 THEN -i ELSE i

Sign(i) == IF i < 0 THEN -1 ELSE IF i > 0 THEN 1 ELSE 0

RECURSIVE GCD(_, _)
GCD(a, b) == IF b = 0 THEN a ELSE GCD(b, a % b)

NaN == [k |-> "nan", n |-> 0, d |-> 1]
PosInf == [k |-> "inf", n |-> 1, d |-> 1]
NegInf == [k |-> "inf", n |-> -1, d |-> 1]
TextCell == [k |-> "text", n |-> 0, d |-> 1]
Num(i) == [k |-> "num", n |-> i, d |-> 1]
InfOf(s) == IF s < 0 THEN NegInf ELSE PosInf

\* the rational n/d, reduced, with a positive denominator (d # 0)
Rat(n, d) ==
    LET g == GCD(Abs(n), Abs(d))
        s == IF d < 0 THEN -1 ELSE 1
    IN [k |-> "num", n |-> (s * n) \div g, d |-> Abs(d) \div g]

isna(x) == x.k = "nan"
IsNum(x) == x.k = "num"
IsInf(x) == x.k = "inf"
IsText(x) == x.k = "text"

\* a - b on floats
FSub(a, b) ==
    IF isna(a) \/ isna(b) THEN NaN
    ELSE IF IsInf(a) THEN (IF IsInf(b) /\ a.n = b.n THEN NaN ELSE a)
    ELSE IF IsInf(b) THEN InfOf(-b.n)
    ELSE Rat(a.n * b.d - b.n * a.d, a.d * b.d)

\* a * b on floats
FMul(a, b) ==
    IF isna(a) \/ isna(b) THEN NaN
    ELSE IF IsInf(a) \/ IsInf(b)
         THEN (IF a.n = 0 \/ b.n = 0 THEN NaN ELSE InfOf(Sign(a.n) * Sign(b.n)))
    ELSE Rat(a.n * b.n, a.d * b.d)

\* a / b on numpy floats: x/0 is +-inf, 0/0 is NaN, nothing raises
FDiv(a, b) ==
    IF isna(a) \/ isna(b) THEN NaN
    ELSE IF IsInf(a) THEN (IF IsInf(b) THEN NaN
                           ELSE InfOf(a.n * (IF b.n < 0 THEN -1 ELSE 1)))
    ELSE IF IsInf(b) THEN Num(0)
    ELSE IF b.n = 0 THEN (IF a.n = 0 THEN NaN ELSE InfOf(a.n))
    ELSE Rat(a.n * b.d, a.d * b.n)

\* abs(x)
FAbs(x) == IF IsNum(x) THEN [x EXCEPT !.n = Abs(x.n)]
           ELSE IF IsInf(x) THEN PosInf ELSE x

\* a < b, a > b: every comparison with NaN is False
FLt(a, b) ==
    IF isna(a) \/ isna(b) THEN FALSE
    ELSE IF IsInf(a) THEN a.n < 0 /\ ~(IsInf(b) /\ b.n < 0)
    ELSE IF IsInf(b) THEN b.n > 0
    ELSE a.n * b.d < b.n * a.d

FGt(a, b) == FLt(b, a)

\* Python's max(a, b): b only when b > a
PyMax(a, b) == IF FGt(b, a) THEN b ELSE a

(***************************************************************************)
(* Header strings are sequences of tokens: words and single whitespace      *)
(* characters.                                                              *)
(***************************************************************************)
Whitespace == {" ", "\t", "\n"}

COL_MARKET == <<"Market", " ", "and", " ", "Exchange", " ", "Names">>
COL_DATE == <<"As", " ", "of", " ", "Date", " ", "in", " ", "Form", " ", "YYYY-MM-DD">>
COL_NC_L == <<"Noncommercial", " ", "Positions-Long", " ", "(All)">>
COL_NC_S == <<"Noncommercial", " ", "Positions-Short", " ", "(All)">>
COL_C_L == <<"Commercial", " ", "Positions-Long", " ", "(All)">>
COL_C_S == <<"Commercial", " ", "Positions-Short", " ", "(All)">>

need == <<COL_MARKET, COL_DATE, COL_NC_L, COL_NC_S, COL_C_L, COL_C_S>>

\* str.replace("\n", " ")
ReplaceNewline(s) == [i \in 1..Len(s) |-> IF s[i] = "\n" THEN " " ELSE s[i]]

RECURSIVE LStrip(_)
LStrip(s) == IF s # <<>> /\ Head(s) \in Whitespace THEN LStrip(Tail(s)) ELSE s

RECURSIVE RStrip(_)
RStrip(s) == IF s # <<>> /\ s[Len(s)] \in Whitespace
             THEN RStrip(SubSeq(s, 1, Len(s) - 1)) ELSE s

\* str.strip()
Strip(s) == RStrip(LStrip(s))

\* str(c).replace("\n", " ").strip()
NormalizeHeader(c) == Strip(ReplaceNewline(c))

(***************************************************************************)
(* The workbook.  A position cell is a number, an empty cell or a text; a   *)
(* date cell is the text "a/b/y" or empty.                                  *)
(***************************************************************************)
EmptyCell == [k |-> "empty", n |-> 0, d |-> 1]

DateText(a, b, y) == [k |-> "text", a |-> a, b |-> b, y |-> y]
EmptyDate == [k |-> "empty", a |-> 0, b |-> 0, y |-> 0]

NaT == [k |-> "nat", y |-> 0, m |-> 0, d |-> 0]
IsDate(t) == t.k = "date"

\* pd.read_excel on one cell: an empty cell is NaN, a number is a float and a
\* text stays the str it is (the column is then of dtype object)
ReadCell(c) == IF c.k = "empty" THEN NaN ELSE c

\* pd.to_datetime(cell, errors="coerce", dayfirst=True): "a/b/y" is day a of
\* month b; a cell that is no such date becomes NaT
ToDatetimeDayFirst(c) ==
    IF c.k = "text" /\ c.a \in Days /\ c.b \in Months
    THEN [k |-> "date", y |-> c.y, m |-> c.b, d |-> c.a]
    ELSE NaT

\* the column as read_excel leaves it when it is not converted
Unparsed(c) == [k |-> "raw", y |-> c.y, m |-> c.b, d |-> c.a]

InColumns(c, columns) == \E i \in 1..Len(columns) : columns[i] = c

load_data(f) ==
    LET columns == [i \in 1..Len(f.headers) |-> NormalizeHeader(f.headers[i])]
        parse == InColumns(COL_DATE, columns)
    IN [columns |-> columns,
        rows |-> [i \in 1..Len(f.rows) |->
                    [idx |-> i,
                     market |-> f.rows[i].market,
                     date |-> IF parse THEN ToDatetimeDayFirst(f.rows[i].date)
                              ELSE Unparsed(f.rows[i].date),
                     nc_l |-> ReadCell(f.rows[i].nc_l),
                     nc_s |-> ReadCell(f.rows[i].nc_s),
                     c_l |-> ReadCell(f.rows[i].c_l),
                     c_s |-> ReadCell(f.rows[i].c_s)]]]

\* fault: only the first absent column is reported
MissingColumns_FirstOnly(columns) ==
    LET absent(c) == ~InColumns(c, columns)
        all == SelectSeq(need, absent)
    IN IF all = <<>> THEN all ELSE <<all[1]>>

\* [c for c in need if c not in df.columns]
MissingColumns(columns) ==
    LET absent(c) == ~InColumns(c, columns) IN SelectSeq(need, absent)

(***************************************************************************)
(* Sidebar and filter.                                                      *)
(***************************************************************************)
Range(s) == {s[i] : i \in 1..Len(s)}

\* df[COL_MARKET].dropna().unique()
markets(d) == {r.market : r \in Range(d.rows)}

\* df[COL_DATE].dt.year.dropna().astype(int).unique()
all_years(d) == {r.date.y : r \in {q \in Range(d.rows) : IsDate(q.date)}}

SetMin(S) == CHOOSE x \in S : \A y \in S : x <= y
SetMax(S) == CHOOSE x \in S : \A y \in S : x >= y

\* fault: the range test written as "not below and not above", which NaT passes
YearBetween_Negated(t, lo, hi) == ~(IsDate(t) /\ t.y < lo) /\ ~(IsDate(t) /\ t.y > hi)

\* Series.between(lo, hi) on .dt.year: both ends inclusive, False for NaT
YearBetween(t, lo, hi) == IsDate(t) /\ lo <= t.y /\ t.y <= hi

\* fault: the end year is excluded
Selected_EndExclusive(r, market, years) ==
    r.market = market /\ IsDate(r.date) /\ years[1] <= r.date.y /\ r.date.y < years[2]

\* the boolean mask of lines 47-48
Selected(r, market, years) ==
    r.market = market /\ YearBetween(r.date, years[1], years[2])

DateLE(s, t) ==
    \/ s.y < t.y
    \/ s.y = t.y /\ s.m < t.m
    \/ s.y = t.y /\ s.m = t.m /\ s.d <= t.d

\* sort_values(COL_DATE): ascending by date; the default sort is not stable,
\* so rows of equal date may come out in any order
RECURSIVE SortedOrders(_)
SortedOrders(S) ==
    IF S = {} THEN {<<>>}
    ELSE UNION {{<<r>> \o t : t \in SortedOrders(S \ {r})} :
                r \in {q \in S : \A p \in S : DateLE(q.date, p.date)}}

FilteredRows(d, market, years) == {r \in Range(d.rows) : Selected(r, market, years)}

\* fault: the empty selection is not stopped
FilterOutcome_NoStop(sorted) == "filtered"

\* lines 51-53: an empty selection shows st.info and stops the run
FilterOutcome(sorted) == IF sorted = <<>> THEN "stopped_empty" ELSE "filtered"

(***************************************************************************)
(* Net positions (lines 56-57).  A column holding a text is of dtype        *)
(* object: pandas subtracts it element by element where both operands are   *)
(* not null, and Python raises TypeError for a str operand.                 *)
(***************************************************************************)
SubRaises(a, b) == ~isna(a) /\ ~isna(b) /\ (IsText(a) \/ IsText(b))

ObjSub(a, b) == IF isna(a) \/ isna(b) \/ IsText(a) \/ IsText(b) THEN NaN ELSE FSub(a, b)

NetRows(rows) ==
    [i \in 1..Len(rows) |->
        [nc_net |-> ObjSub(rows[i].nc_l, rows[i].nc_s),
         c_net |-> ObjSub(rows[i].c_l, rows[i].c_s)]]

NoError == [kind |-> "none", line |-> 0]
Raised(kind, line) == [kind |-> kind, line |-> line]

NetsError(rows) ==
    IF \E i \in 1..Len(rows) : SubRaises(rows[i].nc_l, rows[i].nc_s)
    THEN Raised("TypeError", 56)
    ELSE IF \E i \in 1..Len(rows) : SubRaises(rows[i].c_l, rows[i].c_s)
    THEN Raised("TypeError", 57)
    ELSE NoError

(***************************************************************************)
(* Sentiment utilities (lines 60-81).  The values compared are whole        *)
(* contract counts, so x > 1e-9 is x > 0 and x < -1e-9 is x < 0.            *)
(***************************************************************************)
INT_LOW == 10
INT_MED == 25

direction_from_nc(nc_now) ==
    IF FGt(nc_now, Num(0)) THEN [label |-> "Alcista", color |-> "#0ea65d"]
    ELSE IF FLt(nc_now, Num(0)) THEN [label |-> "Bajista", color |-> "#c0392b"]
    ELSE [label |-> "Neutral", color |-> "#808080"]

\* fault: no guard for None/NaN, whose comparisons are all False
intensity_from_pct_Unguarded(has, delta_pct_abs) ==
    IF FLt(delta_pct_abs, Num(INT_LOW)) THEN [label |-> "Bajo", color |-> "#7f8c8d"]
    ELSE IF FLt(delta_pct_abs, Num(INT_MED)) THEN [label |-> "Medio", color |-> "#f39c12"]
    ELSE [label |-> "Alto", color |-> "#8e44ad"]

\* the argument is None when has is FALSE
intensity_from_pct(has, delta_pct_abs) ==
    IF ~has \/ isna(delta_pct_abs) THEN [label |-> "Bajo", color |-> "#7f8c8d"]
    ELSE IF FLt(delta_pct_abs, Num(INT_LOW)) THEN [label |-> "Bajo", color |-> "#7f8c8d"]
    ELSE IF FLt(delta_pct_abs, Num(INT_MED)) THEN [label |-> "Medio", color |-> "#f39c12"]
    ELSE [label |-> "Alto", color |-> "#8e44ad"]

(***************************************************************************)
(* KPI tiles and sentiment cards (lines 84-171).                            *)
(***************************************************************************)
\* int(x) raises ValueError for NaN (and OverflowError for an infinity)
IntRaises(x) == ~IsNum(x)

\* int(x): truncation toward zero
IntOf(x) == IF x.n < 0 THEN -((-x.n) \div x.d) ELSE x.n \div x.d

\* f"{x:.1f}": the value in tenths, rounded half to even
Tenths(x) ==
    LET a == Abs(x.n) * 10
        q == a \div x.d
        r == a % x.d
        up == 2 * r > x.d \/ (2 * r = x.d /\ q % 2 = 1)
    IN Sign(x.n) * (IF up THEN q + 1 ELSE q)

NoTile == [shown |-> FALSE, value |-> 0, has_delta |-> FALSE, delta |-> 0]
NoDirection == [shown |-> FALSE, label |-> "", color |-> ""]
NoIntensity == [shown |-> FALSE, label |-> "", color |-> "",
                abs_dash |-> FALSE, abs_value |-> 0, pct_dash |-> FALSE, pct_tenths |-> 0]

NoKpi == [n |-> 0, nc_net_4w |-> NaN, nc_delta_abs |-> NaN, nc_delta_pct |-> NaN,
          nc_tile |-> NoTile, c_tile |-> NoTile, direction |-> NoDirection,
          intensity |-> NoIntensity, totals |-> FALSE, err |-> NoError]

\* st.metric(label, f"{int(now):,}", int(now - before)) or, without prev,
\* st.metric(label, f"{int(now):,}")
MetricRaises(has_prev, now, before) ==
    IntRaises(now) \/ (has_prev /\ IntRaises(FSub(now, before)))

Metric(has_prev, now, before) ==
    [shown |-> TRUE, value |-> IntOf(now), has_delta |-> has_prev,
     delta |-> IF has_prev THEN IntOf(FSub(now, before)) ELSE 0]

KpiPass(rows, nt) ==
    LET n == Len(rows)
        last == nt[n]
        has_prev == n >= 2
        prev == IF has_prev THEN nt[n - 1] ELSE last
        nc_net_4w == IF n >= 5 THEN nt[n - 4].nc_net ELSE NaN
        nc_delta_abs == IF n >= 5 THEN FSub(last.nc_net, nc_net_4w) ELSE NaN
        denom == PyMax(Num(1), FAbs(nc_net_4w))
        nc_delta_pct == IF n >= 5 THEN FMul(FDiv(nc_delta_abs, denom), Num(100)) ELSE NaN
        base == [NoKpi EXCEPT !.n = n, !.nc_net_4w = nc_net_4w,
                              !.nc_delta_abs = nc_delta_abs, !.nc_delta_pct = nc_delta_pct]
        k1 == [base EXCEPT !.nc_tile = Metric(has_prev, last.nc_net, prev.nc_net)]
        k2 == [k1 EXCEPT !.c_tile = Metric(has_prev, last.c_net, prev.c_net)]
        dir == direction_from_nc(last.nc_net)
        k3 == [k2 EXCEPT !.direction = [shown |-> TRUE, label |-> dir.label, color |-> dir.color]]
        int == intensity_from_pct(~isna(nc_delta_pct), FAbs(nc_delta_pct))
        k4 == [k3 EXCEPT !.intensity =
                 [shown |-> TRUE, label |-> int.label, color |-> int.color,
                  abs_dash |-> isna(nc_delta_abs),
                  abs_value |-> IF isna(nc_delta_abs) THEN 0 ELSE IntOf(nc_delta_abs),
                  pct_dash |-> isna(nc_delta_pct),
                  pct_tenths |-> IF isna(nc_delta_pct) THEN 0 ELSE Tenths(nc_delta_pct)]]
        r == rows[n]
    IN IF MetricRaises(has_prev, last.nc_net, prev.nc_net)
       THEN [base EXCEPT !.err = Raised("ValueError", IF has_prev THEN 108 ELSE 110)]
       ELSE IF MetricRaises(has_prev, last.c_net, prev.c_net)
       THEN [k1 EXCEPT !.err = Raised("ValueError", IF has_prev THEN 114 ELSE 116)]
       ELSE IF IntRaises(last.nc_net)
       THEN [k2 EXCEPT !.err = Raised("ValueError", 133)]
       ELSE IF ~isna(nc_delta_abs) /\ IntRaises(nc_delta_abs)
       THEN [k3 EXCEPT !.err = Raised("ValueError", 156)]
       ELSE IF IntRaises(r.nc_l) \/ IntRaises(r.nc_s) \/ IntRaises(r.c_l) \/ IntRaises(r.c_s)
       THEN [k4 EXCEPT !.err = Raised("ValueError", 168)]
       ELSE [k4 EXCEPT !.totals = TRUE]

(***************************************************************************)
(* Monthly resampling (lines 174-178) and percent change (lines 180-187).   *)
(***************************************************************************)
\* the ordinal of a date's calendar month
MonthOf(t) == (t.y - 1) * MaxMonth + t.m

\* fault: the last value of the bin, null or not
LastValid_Plain(s) == IF s = <<>> THEN NaN ELSE s[Len(s)]

\* GroupBy.last(): the last value of the bin that is not null, NaN if none
RECURSIVE LastValid(_)
LastValid(s) ==
    IF s = <<>> THEN NaN
    ELSE IF ~isna(s[Len(s)]) THEN s[Len(s)]
    ELSE LastValid(SubSeq(s, 1, Len(s) - 1))

\* set_index(COL_DATE)[["NC Net", "C Net"]].resample("M").last(): one row for
\* every month from the first date's to the last date's
ResampleLast(rows, nt) ==
    LET lo == MonthOf(rows[1].date)
        hi == MonthOf(rows[Len(rows)].date)
        inbin(b) == {i \in 1..Len(rows) : MonthOf(rows[i].date) = b}
        col(b, f) == LET I == inbin(b)
                         first == SetMin(I)
                     IN IF I = {} THEN <<>>
                        ELSE [j \in 1..Cardinality(I) |-> nt[first + j - 1][f]]
    IN [j \in 1..(hi - lo + 1) |->
          [month |-> lo + j - 1,
           nc_net |-> LastValid(col(lo + j - 1, "nc_net")),
           c_net |-> LastValid(col(lo + j - 1, "c_net"))]]

\* .dropna(how="all")
DropAllNaN(m) == LET keep(r) == ~(isna(r.nc_net) /\ isna(r.c_net)) IN SelectSeq(m, keep)

Resample(rows, nt) == DropAllNaN(ResampleLast(rows, nt))

\* abs(x) < 1e-12: the series hold whole contract counts, so only for x = 0
BelowTiny(x) == IsNum(x) /\ x.n = 0

\* fault: no mask for a zero previous value
pct_change_safe_NoZeroMask(series) ==
    LET prev_m(k) == IF k = 1 THEN NaN ELSE series[k - 1]
        pct(k) == FMul(FDiv(FSub(series[k], prev_m(k)), FAbs(prev_m(k))), Num(100))
    IN [k \in 1..Len(series) |-> IF isna(prev_m(k)) THEN NaN ELSE pct(k)]

pct_change_safe(series) ==
    LET prev_m(k) == IF k = 1 THEN NaN ELSE series[k - 1]
        pct(k) == FMul(FDiv(FSub(series[k], prev_m(k)), FAbs(prev_m(k))), Num(100))
    IN [k \in 1..Len(series) |->
          IF BelowTiny(FAbs(prev_m(k))) \/ isna(prev_m(k)) THEN NaN ELSE pct(k)]

Column(m, f) == [k \in 1..Len(m) |-> m[k][f]]

(***************************************************************************)
(* Workbooks the model is run on.                                           *)
(***************************************************************************)
SeqsUpTo(S, n) == UNION {[1..k -> S] : k \in 0..n}

RECURSIVE Flatten(_)
Flatten(ss) == IF ss = <<>> THEN <<>> ELSE Head(ss) \o Flatten(Tail(ss))

\* raw headers that load_data maps to c: a line break for every space, or
\* white space around the name
NewlineHeader(c) == [i \in 1..Len(c) |-> IF c[i] = " " THEN "\n" ELSE c[i]]
PaddedHeader(c) == <<" ">> \o c \o <<"\n">>
\* a line break before the first space: load_data leaves two spaces there
BrokenHeader(c) == <<c[1], "\n">> \o SubSeq(c, 2, Len(c))

HeaderKinds == {"newline", "padded", "broken", "absent"}

RawHeader(kind, c) ==
    IF kind = "newline" THEN <<NewlineHeader(c)>>
    ELSE IF kind = "padded" THEN <<PaddedHeader(c)>>
    ELSE IF kind = "broken" THEN <<BrokenHeader(c)>>
    ELSE <<>>

HeadersOf(v) == Flatten([i \in 1..Len(need) |-> RawHeader(v[i], need[i])])

GoodHeaders == HeadersOf([i \in 1..Len(need) |-> "newline"])

Markets == {"GOLD", "gold"}

RawRow(market, date, nc_l, nc_s, c_l, c_s) ==
    [market |-> market, date |-> date, nc_l |-> nc_l, nc_s |-> nc_s,
     c_l |-> c_l, c_s |-> c_s]

\* the i-th date of the calendar, as the text "d/m/y"
WeekDate(i) ==
    LET j == i - 1
    IN DateText((j % MaxDay) + 1, ((j \div MaxDay) % MaxMonth) + 1,
                (j \div (MaxDay * MaxMonth)) + 1)

\* positions of a row: <<NC long, NC short, C long, C short>>
Positions ==
    {<<Num(12), Num(0), Num(1), Num(2)>>,
     <<Num(10), Num(0), Num(1), Num(1)>>,
     <<Num(2), Num(2), EmptyCell, Num(1)>>,
     <<EmptyCell, Num(1), Num(1), Num(2)>>}

\* history family: one market, one row per date of the calendar, any positions
HistoryBooks ==
    {[headers |-> GoodHeaders,
      rows |-> [i \in 1..Len(ps) |->
                  RawRow("GOLD", WeekDate(i), ps[i][1], ps[i][2], ps[i][3], ps[i][4])]] :
     ps \in SeqsUpTo(Positions, MaxRows)}

\* cell family: as the history family, short, with text cells and empty date
\* cells; <<date is empty, NC long, NC short, C long, C short>>
OddCells ==
    {<<FALSE, TextCell, Num(1), Num(1), Num(2)>>,
     <<FALSE, EmptyCell, TextCell, Num(1), Num(2)>>,
     <<FALSE, Num(3), Num(1), Num(1), TextCell>>,
     <<TRUE, Num(1), Num(3), Num(2), Num(1)>>}

CellBooks ==
    {[headers |-> GoodHeaders,
      rows |-> [i \in 1..Len(cs) |->
                  RawRow("GOLD", IF cs[i][1] THEN EmptyDate ELSE WeekDate(i),
                         cs[i][2], cs[i][3], cs[i][4], cs[i][5])]] :
     cs \in SeqsUpTo(OddCells, MaxFilterRows)}

\* filter family: any market, a first-of-year date or a text that is no date
\* (month MaxMonth + 1); fixed positions
FilterDates == {DateText(1, 1, y) : y \in Years} \cup {DateText(1, MaxMonth + 1, 1)}

FilterRowPool == {RawRow(m, t, Num(1), Num(3), Num(2), Num(1)) : m \in Markets, t \in FilterDates}

FilterBooks ==
    {[headers |-> GoodHeaders, rows |-> rs] : rs \in SeqsUpTo(FilterRowPool, MaxFilterRows)}

\* header family: every required column under one of its raw headers, or absent
HeaderBooks ==
    {[headers |-> HeadersOf(v),
      rows |-> <<RawRow("GOLD", DateText(1, 1, 1), Num(3), Num(1), Num(1), Num(2))>>] :
     v \in [1..Len(need) -> HeaderKinds]}

NoSel == [market |-> "", years |-> <<0, 0>>]
NoMom == [nc |-> <<>>, c |-> <<>>]
NoDf == [columns |-> <<>>, rows |-> <<>>]

Fresh ==
    /\ missing = <<>>
    /\ sel = NoSel
    /\ df_plot = <<>>
    /\ nets = <<>>
    /\ kpi = NoKpi
    /\ df_m = <<>>
    /\ mom = NoMom
    /\ error = NoError

Init ==
    /\ file \in HistoryBooks \cup CellBooks \cup FilterBooks \cup HeaderBooks
    /\ pc = "start"
    /\ df = NoDf
    /\ Fresh

(***************************************************************************)
(* The script, one action per section.                                      *)
(***************************************************************************)
\* lines 11-21: df = load_data(), computed once and cached
Load ==
    /\ pc = "start"
    /\ df' = load_data(file)
    /\ pc' = "loaded"
    /\ UNCHANGED <<file, missing, sel, df_plot, nets, kpi, df_m, mom, error>>

\* lines 31-35
CheckRequired ==
    /\ pc = "loaded"
    /\ missing' = MissingColumns(df.columns)
    /\ pc' = IF missing' # <<>> THEN "stopped_missing" ELSE "checked"
    /\ UNCHANGED <<file, df, sel, df_plot, nets, kpi, df_m, mom, error>>

\* lines 38-53: the sidebar widgets return the user's choice
Filter ==
    /\ pc = "checked"
    /\ IF all_years(df) = {}
       THEN /\ pc' = "raised"
            /\ error' = Raised("ValueError", 42)
            /\ UNCHANGED <<sel, df_plot>>
       ELSE \E sel_market \in markets(df) :
            \E lo \in SetMin(all_years(df))..SetMax(all_years(df)) :
            \E hi \in lo..SetMax(all_years(df)) :
            \E sorted \in SortedOrders(FilteredRows(df, sel_market, <<lo, hi>>)) :
               /\ sel' = [market |-> sel_market, years |-> <<lo, hi>>]
               /\ df_plot' = sorted
               /\ pc' = FilterOutcome(sorted)
               /\ error' = error
    /\ UNCHANGED <<file, df, missing, nets, kpi, df_m, mom>>

\* lines 56-57
Nets ==
    /\ pc = "filtered"
    /\ error' = NetsError(df_plot)
    /\ nets' = IF error' = NoError THEN NetRows(df_plot) ELSE nets
    /\ pc' = IF error' = NoError THEN "nets" ELSE "raised"
    /\ UNCHANGED <<file, df, missing, sel, df_plot, kpi, df_m, mom>>

\* lines 84-171
Kpi ==
    /\ pc = "nets"
    /\ kpi' = KpiPass(df_plot, nets)
    /\ error' = kpi'.err
    /\ pc' = IF error' = NoError THEN "kpi" ELSE "raised"
    /\ UNCHANGED <<file, df, missing, sel, df_plot, nets, df_m, mom>>

\* lines 174-178
Monthly ==
    /\ pc = "kpi"
    /\ df_m' = Resample(df_plot, nets)
    /\ pc' = "resampled"
    /\ UNCHANGED <<file, df, missing, sel, df_plot, nets, kpi, mom, error>>

\* lines 186-187
PctChange ==
    /\ pc = "resampled"
    /\ mom' = [nc |-> pct_change_safe(Column(df_m, "nc_net")),
               c |-> pct_change_safe(Column(df_m, "c_net"))]
    /\ pc' = "done"
    /\ UNCHANGED <<file, df, missing, sel, df_plot, nets, kpi, df_m, error>>

\* an interaction reruns the script; load_data's result comes from the cache
Rerun ==
    /\ pc \in {"done", "stopped_empty", "stopped_missing", "raised"}
    /\ pc' = "loaded"
    /\ missing' = <<>>
    /\ sel' = NoSel
    /\ df_plot' = <<>>
    /\ nets' = <<>>
    /\ kpi' = NoKpi
    /\ df_m' = <<>>
    /\ mom' = NoMom
    /\ error' = NoError
    /\ UNCHANGED <<file, df>>

Next == Load \/ CheckRequired \/ Filter \/ Nets \/ Kpi \/ Monthly \/ PctChange \/ Rerun

Spec == Init /\ [][Next]_vars

(***************************************************************************)
(* Header family: load_data on two raw headers of up to MaxHdrLen           *)
(* characters.                                                              *)
(***************************************************************************)
HdrAlphabet == {"a", " ", "\n", "\t"}

RawHeaders == SeqsUpTo(HdrAlphabet, MaxHdrLen)

InitHeaders ==
    /\ file \in {[headers |-> <<h1, h2>>, rows |-> <<>>] : h1 \in RawHeaders, h2 \in RawHeaders}
    /\ pc = "start"
    /\ df = NoDf
    /\ Fresh

NextHeaders == Load

SpecHeaders == InitHeaders /\ [][NextHeaders]_vars

(***************************************************************************)
(* Percent-change family: pct_change_safe on a monthly table of up to       *)
(* MaxSeries months.                                                        *)
(***************************************************************************)
SeriesValues == {Num(100), Num(50), Num(0), Num(-50), NaN}

MonthlyTables ==
    {[k \in 1..Len(v) |-> [month |-> k, nc_net |-> v[k], c_net |-> Num(1)]] :
     v \in SeqsUpTo(SeriesValues, MaxSeries)}

InitPct ==
    /\ file = [headers |-> GoodHeaders, rows |-> <<>>]
    /\ pc = "resampled"
    /\ df = load_data(file)
    /\ missing = <<>>
    /\ sel = NoSel
    /\ df_plot = <<>>
    /\ nets = <<>>
    /\ kpi = NoKpi
    /\ df_m \in MonthlyTables
    /\ mom = NoMom
    /\ error = NoError

NextPct == PctChange

SpecPct == InitPct /\ [][NextPct]_vars

(***************************************************************************)
(* Properties.                                                              *)
(***************************************************************************)
NothingDerived ==
    /\ df_plot = <<>>
    /\ nets = <<>>
    /\ kpi = NoKpi
    /\ df_m = <<>>
    /\ mom = NoMom

\* C1: when a required column is absent from the loaded table, the run stops
\* at the required-column check, the report lists every absent required
\* column, and nothing is selected, filtered or derived.
C1_MissingColumnsHalt ==
    LET absent == {c \in Range(need) : c \notin Range(df.columns)}
    IN (pc \notin {"start", "loaded"} /\ absent # {}) =>
          /\ pc = "stopped_missing"
          /\ Range(missing) = absent
          /\ Len(missing) = Cardinality(absent)
          /\ sel = NoSel
          /\ error = NoError
          /\ NothingDerived

C1_Witness ==
    /\ pc = "stopped_missing"
    /\ Len(missing) >= 2
    /\ df.columns # <<>>

\* the header with every run of white space collapsed to one space and the
\* ends trimmed
RECURSIVE Squeeze(_)
Squeeze(s) ==
    IF Len(s) < 2 THEN s
    ELSE IF s[1] = " " /\ s[2] = " " THEN Squeeze(Tail(s))
    ELSE <<s[1]>> \o Squeeze(Tail(s))

Collapse(s) ==
    Squeeze(Strip([i \in 1..Len(s) |-> IF s[i] \in Whitespace THEN " " ELSE s[i]]))

\* C2: two raw headers that differ only in white space (runs of spaces, tabs,
\* line breaks, white space at the ends) get the same normalized name, and
\* normalizing a normalized name changes nothing.
C2_Claim ==
    pc = "loaded" =>
       /\ (Collapse(file.headers[1]) = Collapse(file.headers[2])
             => df.columns[1] = df.columns[2])
       /\ \A i \in 1..Len(df.columns) : NormalizeHeader(df.columns[i]) = df.columns[i]

\* C3: the percent change of a monthly series is never an infinity; it is NaN
\* at the first month, after a NaN and after a zero, and 100*(v[k]-v[k-1])/|v[k-1]|
\* elsewhere; <<100, 0, 50>> gives -100 at the second month and NaN at the third.
C3_PctChangeSafe ==
    pc = "done" =>
       LET v == Column(df_m, "nc_net")
       IN /\ Len(mom.nc) = Len(v)
          /\ \A k \in 1..Len(v) :
                LET r == mom.nc[k]
                IN /\ ~IsInf(r)
                   /\ IF k = 1 THEN isna(r)
                      ELSE IF isna(v[k - 1]) \/ v[k - 1].n = 0 THEN isna(r)
                      ELSE IF isna(v[k]) THEN isna(r)
                      ELSE /\ IsNum(r)
                           /\ r.n * v[k].d * Abs(v[k - 1].n)
                                = 100 * (v[k].n * v[k - 1].d - v[k - 1].n * v[k].d) * r.d
          /\ (v = <<Num(100), Num(0), Num(50)>> => mom.nc = <<NaN, Num(-100), NaN>>)

C3_Witness ==
    /\ pc = "done"
    /\ Column(df_m, "nc_net") = <<Num(100), Num(0), Num(50)>>
    /\ mom.nc[2] = Num(-100)

NoTextIn(rows) ==
    \A i \in 1..Len(rows) :
       ~IsText(rows[i].nc_l) /\ ~IsText(rows[i].nc_s) /\ ~IsText(rows[i].c_l) /\ ~IsText(rows[i].c_s)

\* C4: for every non-empty selection of numeric or missing positions the pass
\* runs to completion: no section raises.
C4_Claim == (df_plot # <<>> /\ NoTextIn(df_plot)) => error = NoError

TierLabels == {"Bajo", "Medio", "Alto"}

\* C5 as stated: with fewer than 2 observations the tiles carry no delta; with
\* fewer than 5 the 4-period change is a dash and the intensity is no tier.
C5_Original ==
    /\ (kpi.nc_tile.shown /\ kpi.n < 2) => ~kpi.nc_tile.has_delta
    /\ (kpi.c_tile.shown /\ kpi.n < 2) => ~kpi.c_tile.has_delta
    /\ (kpi.intensity.shown /\ kpi.n < 5) =>
          /\ kpi.intensity.abs_dash
          /\ kpi.intensity.pct_dash
          /\ kpi.intensity.label \notin TierLabels

\* C5 amended: with fewer than 2 observations a rendered tile carries no delta;
\* with fewer than 5 the 4-period change (absolute and percent) is NaN, the
\* rendered card shows it as a dash and shows the default, the lowest tier "Bajo".
C5_InsufficientHistory ==
    /\ (kpi.nc_tile.shown /\ kpi.n < 2) => ~kpi.nc_tile.has_delta
    /\ (kpi.c_tile.shown /\ kpi.n < 2) => ~kpi.c_tile.has_delta
    /\ (kpi.n >= 1 /\ kpi.n < 5) => isna(kpi.nc_delta_abs) /\ isna(kpi.nc_delta_pct)
    /\ (kpi.intensity.shown /\ kpi.n < 5) =>
          /\ kpi.intensity.abs_dash
          /\ kpi.intensity.pct_dash
          /\ kpi.intensity.label = "Bajo"
          /\ kpi.intensity.color = "#7f8c8d"

C5_Witness ==
    /\ pc = "done"
    /\ kpi.n = 1
    /\ kpi.nc_tile.shown /\ kpi.c_tile.shown /\ kpi.intensity.shown

NotNumeric(c) == c.k \in {"empty", "text"}

\* C6: every row of the workbook is kept, a position cell that is empty or not
\* a number is NaN in the loaded table, and neither the load nor the net
\* positions raise on it.
C6_Claim ==
    pc # "start" =>
       /\ Len(df.rows) = Len(file.rows)
       /\ \A i \in 1..Len(df.rows) :
             /\ NotNumeric(file.rows[i].nc_l) => isna(df.rows[i].nc_l)
             /\ NotNumeric(file.rows[i].nc_s) => isna(df.rows[i].nc_s)
             /\ NotNumeric(file.rows[i].c_l) => isna(df.rows[i].c_l)
             /\ NotNumeric(file.rows[i].c_s) => isna(df.rows[i].c_s)
       /\ error.kind # "TypeError"

NotADayFirstDate(c) == c.k # "text" \/ c.a \notin Days \/ c.b \notin Months

\* C7: a date cell that is no day-first date is a missing date in the loaded
\* table, and no row of a filtered table has a missing date.
C7_NoMissingDate ==
    /\ (pc = "loaded" /\ COL_DATE \in Range(df.columns)) =>
          \A i \in 1..Len(df.rows) :
             NotADayFirstDate(file.rows[i].date) => df.rows[i].date = NaT
    /\ \A i \in 1..Len(df_plot) : df_plot[i].date.k = "date"

C7_Witness ==
    /\ pc = "filtered"
    /\ \E r \in Range(df.rows) : r.market = sel.market /\ r.date = NaT

InRange(r) ==
    /\ r.date.k = "date"
    /\ sel.years[1] <= r.date.y
    /\ r.date.y <= sel.years[2]

\* C8: the filtered table holds exactly the loaded rows of the selected market
\* (same case) dated within the selected years, both ends included, each once.
C8_FilterExact ==
    sel # NoSel =>
       LET want == {r \in Range(df.rows) : r.market = sel.market /\ InRange(r)}
       IN /\ Range(df_plot) = want
          /\ Len(df_plot) = Cardinality(want)

C8_Witness ==
    /\ pc = "filtered"
    /\ sel.years[1] < sel.years[2]
    /\ \E r \in Range(df_plot) : r.date.y = sel.years[1]
    /\ \E r \in Range(df_plot) : r.date.y = sel.years[2]
    /\ \E r \in Range(df.rows) : r.market # sel.market /\ InRange(r)

\* C9: a selection that matches no row ends in the informational empty state,
\* with no error and nothing derived; a year range outside the data's years
\* matches no row.
C9_EmptySelection ==
    /\ (sel # NoSel /\ ~\E r \in Range(df.rows) : r.market = sel.market /\ InRange(r)) =>
          /\ pc = "stopped_empty"
          /\ error = NoError
          /\ NothingDerived
    /\ (pc = "checked" /\ all_years(df) # {}) =>
          \A m \in Markets : \A lo \in 0..(MaxYear + 1) : \A hi \in lo..(MaxYear + 1) :
             (hi < SetMin(all_years(df)) \/ lo > SetMax(all_years(df)))
                => FilteredRows(df, m, <<lo, hi>>) = {}

C9_Witness ==
    /\ pc = "stopped_empty"
    /\ \E r \in Range(df.rows) : r.market = sel.market /\ r.date.k = "date"

ObservedMonths == {MonthOf(df_plot[i].date) : i \in 1..Len(df_plot)}
InMonth(b) == {i \in 1..Len(df_plot) : MonthOf(df_plot[i].date) = b}
ValidInMonth(b, f) == {i \in InMonth(b) : ~isna(nets[i][f])}
LastValue(b, f) == IF ValidInMonth(b, f) = {} THEN NaN ELSE nets[SetMax(ValidInMonth(b, f))][f]

\* C10 as stated: every month with an observation has one monthly value per net
\* series, the net value of the last observation of the month.
C10_Original ==
    pc \in {"resampled", "done"} /\ df_plot # <<>> =>
       \A b \in ObservedMonths :
          /\ Cardinality({j \in 1..Len(df_m) : df_m[j].month = b}) = 1
          /\ \A j \in 1..Len(df_m) :
                df_m[j].month = b =>
                   /\ df_m[j].nc_net = nets[SetMax(InMonth(b))].nc_net
                   /\ df_m[j].c_net = nets[SetMax(InMonth(b))].c_net

\* C10 amended: the monthly table, once computed, has at most one row per calendar month, in
\* ascending order, only for months with an observation; a month is listed
\* when one of its observations has an NC Net or C Net that is not NaN, and its
\* value for a series is the net value of the last observation of the month
\* whose value for that series is not NaN (NaN when there is none).
C10_MonthlyLastValid ==
    pc \in {"resampled", "done"} /\ df_plot # <<>> =>
       /\ \A j \in 1..Len(df_m) : df_m[j].month \in ObservedMonths
       /\ \A j \in 1..(Len(df_m) - 1) : df_m[j].month < df_m[j + 1].month
       /\ \A b \in ObservedMonths :
             /\ (\E j \in 1..Len(df_m) : df_m[j].month = b)
                   <=> (ValidInMonth(b, "nc_net") # {} \/ ValidInMonth(b, "c_net") # {})
             /\ \A j \in 1..Len(df_m) :
                   df_m[j].month = b =>
                      /\ df_m[j].nc_net = LastValue(b, "nc_net")
                      /\ df_m[j].c_net = LastValue(b, "c_net")

C10_Witness ==
    /\ pc = "done"
    /\ \E b \in ObservedMonths :
          /\ ValidInMonth(b, "nc_net") # {}
          /\ SetMax(ValidInMonth(b, "nc_net")) < SetMax(InMonth(b))
          /\ \E j \in 1..Len(df_m) : df_m[j].month = b

====
